---- MODULE Spec2Model ----
(***************************************************************************)
(* Model of the avatar studio: the export panel (ExportPanel component,    *)
(* MediaRecorder driven capture) and the audio pipeline (useAudioEngine).  *)
(*                                                                         *)
(* Browser objects the code drives (MediaRecorder, object URLs, the clock) *)
(* are modelled by what the code observes of them: a recorder's state and  *)
(* the events it queues, the set of unrevoked object URLs, Date.now().     *)
(***************************************************************************)
EXTENDS Integers, Sequences, FiniteSets, TLC

\* ------------------------------------------------------------------ bounds

\* MediaRecorder objects created in one session.
MaxRecorders == 2
\* Millisecond ticks of Date.now() observed in one session.
MaxTime == 1

\* ---------------------------------------------------------------- constants

\* A ref holding null (recorderRef, downloadUrlRef).
NullRef == 0
\* downloadSize === null.
NullSize == -1

\* The two encodings the buttons request, and the fallback of startRecording.
MimeWebmVp9 == "video/webm;codecs=vp9,opus"
MimeMp4 == "video/mp4;codecs=h264,aac"
MimeWebm == "video/webm"
RequestedMimes == {MimeWebmVp9, MimeMp4}
AllMimes == {MimeWebmVp9, MimeMp4, MimeWebm}

\* Sizes of the blob a dataavailable event carries (0: nothing was gathered).
ChunkSizes == {0, 1}

ExportStatus == {"idle", "recording", "processing", "complete", "error"}

\* The messages of setMessage, by the line that sets them.
MsgNone == "null"
MsgCanvasNotReady == "Preview canvas not ready. Try again once the avatar is visible."
MsgAlreadyRecording == "Recording already in progress."
MsgUnsupported == "MediaRecorder does not support the requested type on this browser."
MsgRecordingError == "Recording error"
MsgComplete == "Rendering complete. Download ready!"
MsgRecording == "Recording in progress... interact with controls or audio playback."
MsgNoActive == "No active recording."
MsgNoRecordingYet == "No recording available yet."

VARIABLES
  canvasReady,     \* canvasRef.current is a mounted canvas
  supported,       \* the mime types MediaRecorder.isTypeSupported accepts
  status,          \* useState<ExportStatus>
  message,         \* useState<string | null>
  downloadReady,   \* useState(false)
  downloadSize,    \* useState<number | null>
  recorderRef,     \* useRef<MediaRecorder | null>: a recorder id or NullRef
  exportChunksRef, \* useRef<Blob[]>: sequence of [rec, size]
  downloadUrlRef,  \* useRef<string | null>: an object URL id or NullRef
  lastMimeRef,     \* useRef<string>
  recorders,       \* the MediaRecorder objects created so far: [state, mime]
  faulted,         \* the recorders the browser reported a fault for
  events,          \* recorder events queued by the browser, in order
  objectUrls,      \* URL.createObjectURL results: [blob, revoked], index = id
  now,             \* Date.now()
  saved,           \* the names of the files download() saved: [ts, ext]
  savedAt,         \* the values of Date.now() at which download() saved a file
  clash,           \* the last download() reused a name already in saved
  lastOp,          \* the handler that ran last
  lastArg,         \* its argument
  statusWrites,    \* the setStatus calls of that handler, in order
  av,              \* the avatar image of the canvas and its loads
  face,            \* what the canvas draws the face from, and the mouth drawn
  loop,            \* the render loop of the canvas and its blink state
  audioOp,         \* the operation of the audio pipeline that ran last
  audioArg,        \* its argument, for seek
  ap,              \* the audio pipeline of useAudioEngine: its state, its refs,
                   \* the media element and the browser registries it drives
  synth,           \* the last call of the synthesizer or the encoder, with
                   \* its input and its result
  workers,         \* the encoding workers of bufferToWav and their promises
  micro,           \* the page's idle micro-motion and the clock of its frames
  sched            \* the display's frame callbacks, the level they sample
                   \* and the level the canvas draws

exportVars == <<canvasReady, supported, status, message, downloadReady,
                downloadSize, recorderRef, exportChunksRef, downloadUrlRef,
                lastMimeRef, recorders, faulted, events, objectUrls, now,
                saved, savedAt, clash, lastOp, lastArg, statusWrites>>

audioVars == <<audioOp, audioArg, ap>>

canvasVars == <<av, face, loop>>

synthVars == <<synth, workers>>

frameVars == <<micro, sched>>

vars == <<exportVars, audioVars, canvasVars, synthVars, frameVars>>

\* ------------------------------------------------------------ browser model

isTypeSupported(m) == m \in supported

RECURSIVE SumSizes(_)
SumSizes(chunks) ==
  IF chunks = <<>> THEN 0 ELSE Head(chunks).size + SumSizes(Tail(chunks))

\* new Blob(chunks, {type}): the chunks in order, and blob.size.
NewBlob(chunks, type) == [chunks |-> chunks, type |-> type, size |-> SumSizes(chunks)]

\* The unrevoked object URLs.
LiveUrls == {u \in 1..Len(objectUrls) : ~objectUrls[u].revoked}

\* MediaRecorder.stop() on recorder r: nothing when r is inactive; otherwise r
\* becomes inactive and a dataavailable and a stop event are queued.
RecorderAfterStop(recs, r) ==
  IF recs[r].state = "recording" THEN [recs EXCEPT ![r].state = "inactive"] ELSE recs

EventsAfterStop(recs, evs, r) ==
  IF recs[r].state = "recording"
    THEN evs \o << [rec |-> r, type |-> "dataavailable"], [rec |-> r, type |-> "stop"] >>
    ELSE evs

\* ------------------------------------------------------------------- Init

\* The browsers' answers: one that records vp9 in webm records webm.
Browsers == {S \in SUBSET AllMimes : MimeWebmVp9 \in S => MimeWebm \in S}

ExportStart(browsers) ==
  /\ canvasReady = FALSE
  /\ supported \in browsers
  /\ status = "idle"
  /\ message = MsgNone
  /\ downloadReady = FALSE
  /\ downloadSize = NullSize
  /\ recorderRef = NullRef
  /\ exportChunksRef = <<>>
  /\ downloadUrlRef = NullRef
  /\ lastMimeRef = MimeWebm
  /\ recorders = <<>>
  /\ faulted = {}
  /\ events = <<>>
  /\ objectUrls = <<>>
  /\ now = 0
  /\ saved = {}
  /\ savedAt = {}
  /\ clash = FALSE
  /\ lastOp = "none"
  /\ lastArg = "none"
  /\ statusWrites = <<>>

\* ---------------------------------------------------------------- handlers

\* The canvas of AvatarCanvas is mounted: canvasRef.current is set.
CanvasMount ==
  /\ UNCHANGED <<audioVars, canvasVars, synthVars, frameVars>>
  /\ ~canvasReady
  /\ canvasReady' = TRUE
  /\ lastOp' = "mount"
  /\ lastArg' = "none"
  /\ statusWrites' = <<>>
  /\ UNCHANGED <<supported, status, message, downloadReady, downloadSize,
                 recorderRef, exportChunksRef, downloadUrlRef, lastMimeRef,
                 recorders, faulted, events, objectUrls, now, saved, savedAt,
                 clash>>

\* Date.now() advances by a millisecond.
Tick ==
  /\ UNCHANGED <<audioVars, canvasVars, synthVars, frameVars>>
  /\ now < MaxTime
  /\ now' = now + 1
  /\ lastOp' = "tick"
  /\ lastArg' = "none"
  /\ statusWrites' = <<>>
  /\ UNCHANGED <<canvasReady, supported, status, message, downloadReady,
                 downloadSize, recorderRef, exportChunksRef, downloadUrlRef,
                 lastMimeRef, recorders, faulted, events, objectUrls,
                 saved, savedAt, clash>>

RecorderActiveNever == FALSE

\* if (recorderRef.current): a recording is taken to be in progress.
RecorderActive == recorderRef # NullRef

startRecording(mimeType) ==
  LET supportedMime == IF isTypeSupported(mimeType) THEN mimeType ELSE MimeWebm
      recorder == Len(recorders) + 1
  IN
  /\ UNCHANGED <<audioVars, canvasVars, synthVars, frameVars>>
  /\ lastOp' = "startRecording"
  /\ lastArg' = mimeType
  /\ UNCHANGED <<canvasReady, supported, faulted, events, objectUrls, now,
                 saved, savedAt, clash, downloadUrlRef>>
  /\ IF ~canvasReady THEN
       /\ status' = "error"
       /\ statusWrites' = <<"error">>
       /\ message' = MsgCanvasNotReady
       /\ UNCHANGED <<downloadReady, downloadSize, recorderRef, exportChunksRef,
                      lastMimeRef, recorders>>
     ELSE IF RecorderActive THEN
       /\ status' = "error"
       /\ statusWrites' = <<"error">>
       /\ message' = MsgAlreadyRecording
       /\ UNCHANGED <<downloadReady, downloadSize, recorderRef, exportChunksRef,
                      lastMimeRef, recorders>>
     ELSE IF ~isTypeSupported(supportedMime) THEN
       /\ downloadReady' = FALSE
       /\ downloadSize' = NullSize
       /\ status' = "error"
       /\ statusWrites' = <<"error">>
       /\ message' = MsgUnsupported
       /\ UNCHANGED <<recorderRef, exportChunksRef, lastMimeRef, recorders>>
     ELSE
       /\ Len(recorders) < MaxRecorders
       /\ downloadReady' = FALSE
       /\ downloadSize' = NullSize
       /\ lastMimeRef' = supportedMime
       /\ exportChunksRef' = <<>>
       /\ recorderRef' = recorder
       /\ recorders' = Append(recorders, [state |-> "recording", mime |-> supportedMime])
       /\ status' = "recording"
       /\ statusWrites' = <<"recording">>
       /\ message' = MsgRecording

stopNoActiveResets ==
  /\ message' = MsgNoActive
  /\ status' = "idle"
  /\ UNCHANGED <<recorderRef, recorders, events>>

\* stopRecording with no recorder: the message, and return.
stopNoActive ==
  /\ message' = MsgNoActive
  /\ UNCHANGED <<status, recorderRef, recorders, events>>

stopRecording ==
  /\ UNCHANGED <<audioVars, canvasVars, synthVars, frameVars>>
  /\ lastOp' = "stopRecording"
  /\ lastArg' = "none"
  /\ statusWrites' = <<>>
  /\ UNCHANGED <<canvasReady, supported, downloadReady, downloadSize,
                 exportChunksRef, downloadUrlRef, lastMimeRef, faulted,
                 objectUrls, now, saved, savedAt, clash>>
  /\ IF recorderRef = NullRef THEN
       stopNoActive
     ELSE
       /\ recorders' = RecorderAfterStop(recorders, recorderRef)
       /\ events' = EventsAfterStop(recorders, events, recorderRef)
       /\ recorderRef' = NullRef
       /\ UNCHANGED <<message, status>>

\* lastMimeRef.current.includes("mp4"), over the mime types the ref can hold.
IncludesMp4(mime) == mime \in {MimeMp4}

Extension(mime) == IF IncludesMp4(mime) THEN "mp4" ELSE "webm"

FileNameNoStamp(ts, extension) == [ts |-> 0, ext |-> extension]

\* `avatar-export-${Date.now()}.${extension}`
FileName(ts, extension) == [ts |-> ts, ext |-> extension]

\* download(): the Download button is rendered only while downloadReady.
download ==
  /\ UNCHANGED <<audioVars, canvasVars, synthVars, frameVars>>
  /\ downloadReady
  /\ lastOp' = "download"
  /\ lastArg' = "none"
  /\ statusWrites' = <<>>
  /\ UNCHANGED <<canvasReady, supported, status, downloadReady, downloadSize,
                 recorderRef, exportChunksRef, downloadUrlRef, lastMimeRef,
                 recorders, faulted, events, objectUrls, now>>
  /\ IF downloadUrlRef = NullRef THEN
       /\ message' = MsgNoRecordingYet
       /\ UNCHANGED <<saved, savedAt, clash>>
     ELSE
       /\ saved' = saved \cup {FileName(now, Extension(lastMimeRef))}
       /\ savedAt' = savedAt \cup {now}
       /\ clash' = (FileName(now, Extension(lastMimeRef)) \in saved)
       /\ UNCHANGED message

\* recorder.ondataavailable, for an event carrying a blob of the given size.
ondataavailable(rec, size) ==
  /\ exportChunksRef' = IF size > 0
                          THEN Append(exportChunksRef, [rec |-> rec, size |-> size])
                          ELSE exportChunksRef
  /\ statusWrites' = <<>>
  /\ UNCHANGED <<status, message, downloadReady, downloadSize, recorderRef,
                 downloadUrlRef, lastMimeRef, recorders, objectUrls>>

\* recorder.onerror: stops whichever recorder recorderRef holds.
onerror(rec, evs) ==
  /\ status' = "error"
  /\ statusWrites' = <<"error">>
  /\ message' = MsgRecordingError
  /\ IF recorderRef # NullRef
       THEN /\ recorders' = RecorderAfterStop(recorders, recorderRef)
            /\ events' = EventsAfterStop(recorders, evs, recorderRef)
       ELSE /\ recorders' = recorders
            /\ events' = evs
  /\ recorderRef' = NullRef
  /\ UNCHANGED <<downloadReady, downloadSize, exportChunksRef, downloadUrlRef,
                 lastMimeRef, objectUrls>>

RevokeNothing(urls) == urls

\* if (downloadUrlRef.current) URL.revokeObjectURL(downloadUrlRef.current)
RevokePrevious(urls) ==
  IF downloadUrlRef # NullRef
    THEN [urls EXCEPT ![downloadUrlRef].revoked = TRUE]
    ELSE urls

\* recorder.onstop: builds the blob, replaces the download handle.
onstop(rec) ==
  LET blob == NewBlob(exportChunksRef, lastMimeRef) IN
  /\ objectUrls' = Append(RevokePrevious(objectUrls), [blob |-> blob, revoked |-> FALSE])
  /\ downloadUrlRef' = Len(objectUrls) + 1
  /\ downloadSize' = blob.size
  /\ downloadReady' = TRUE
  /\ status' = "complete"
  /\ statusWrites' = <<"processing", "complete">>
  /\ message' = MsgComplete
  /\ UNCHANGED <<recorderRef, exportChunksRef, lastMimeRef, recorders>>

\* The browser delivers the oldest queued recorder event to its handler.
DeliverEvent ==
  /\ UNCHANGED <<audioVars, canvasVars, synthVars, frameVars>>
  /\ events # <<>>
  /\ LET e == Head(events) IN
     /\ lastOp' = e.type
     /\ lastArg' = "none"
     /\ CASE e.type = "dataavailable" ->
               /\ \E size \in ChunkSizes : ondataavailable(e.rec, size)
               /\ events' = Tail(events)
          [] e.type = "error" -> onerror(e.rec, Tail(events))
          [] e.type = "stop" ->
               /\ onstop(e.rec)
               /\ events' = Tail(events)
  /\ UNCHANGED <<canvasReady, supported, faulted, now, saved, savedAt, clash>>

\* A recording recorder fails: the browser inactivates it and queues an error
\* event, then the data gathered so far, then stop.
RecorderFault(r) ==
  /\ UNCHANGED <<audioVars, canvasVars, synthVars, frameVars>>
  /\ r \in 1..Len(recorders)
  /\ recorders[r].state = "recording"
  /\ recorders' = [recorders EXCEPT ![r].state = "inactive"]
  /\ faulted' = faulted \cup {r}
  /\ events' = events \o << [rec |-> r, type |-> "error"],
                            [rec |-> r, type |-> "dataavailable"],
                            [rec |-> r, type |-> "stop"] >>
  /\ lastOp' = "fault"
  /\ lastArg' = "none"
  /\ statusWrites' = <<>>
  /\ UNCHANGED <<canvasReady, supported, status, message, downloadReady,
                 downloadSize, recorderRef, exportChunksRef, downloadUrlRef,
                 lastMimeRef, objectUrls, now, saved, savedAt, clash>>

ExportNext ==
  \/ CanvasMount
  \/ \E m \in RequestedMimes : startRecording(m)
  \/ stopRecording
  \/ download
  \/ DeliverEvent
  \/ \E r \in 1..MaxRecorders : RecorderFault(r)

\* ============================================================ audio pipeline

\* Object URLs created by the source-loading operations in one session.
MaxLoads == 2
\* Media element events queued and not yet delivered.
MaxQueued == 2
\* Calls suspended at `await ctx.resume()` at one time.
MaxWaiting == 2
\* The length of every loaded medium, in playback steps.
MediaLength == 1

\* The amplitude rms * 8 of the analyser's buffer, in hundredths.
RmsTimes8 == {0, 50, 300}

\* A source (audio.src, sourceMeta.url) that is absent.
NoSrc == 0
\* window.requestAnimationFrame handle of no request (useRef<number>(0)).
NoFrame == 0

NoMeta == [type |-> "null"]

\* No argument recorded.
NoArg == [kind |-> "none", v |-> 0]

ErrNone == "null"
ErrNoWebAudio == "Web Audio API is not supported in this browser."
ErrElementBound == "HTMLMediaElement already connected previously to a different MediaElementSourceNode."
ErrPlayBlocked == "Playback blocked. Interact with the page first."
ErrEmptyText == "Enter text to generate speech."
ErrEncode == "Failed to encode WAV"
ErrNoAudioContext == "AudioContext is not defined"

Files == {"clip"}

\* Texts handed to generateSpeech: empty, whitespace only, and a word.
Texts == {"", " ", "hi"}

\* text.trim()
Trim(text) == IF text \in {"", " "} THEN "" ELSE text

\* The label of a synthesized source.
SpeechLabel == "AI Voice"

\* The numbers a caller can pass to seek: finite ones below, inside and
\* above the range of a loaded medium, and the three non-finite ones.
SeekValues ==
  [kind : {"finite"}, v : (0 - 1)..(MediaLength + 1)]
    \cup [kind : {"NaN", "Infinity", "-Infinity"}, v : {0}]

\* Number.isFinite(value)
isFinite(x) == x.kind = "finite"

\* The state of the hook after mount: ensureAudioElements has created the
\* audio and video elements (el*, videoSrc), nothing else exists.  api: the
\* browser has an AudioContext; rebind: the browser lets an element that
\* already feeds a source node feed a new one (browsers differ; the ones
\* that do not throw InvalidStateError).  nWorkers counts the encoding
\* workers not yet answered, localError is the page's error banner.
AudioStart(api, rebind) ==
  [ audioLevel |-> 0, isPlaying |-> FALSE, duration |-> 0, currentTime |-> 0,
    error |-> ErrNone, sourceMeta |-> NoMeta,
    audioContextRef |-> "null", analyserRef |-> FALSE, sourceNodeRef |-> NullRef,
    gainNodeRef |-> FALSE, destinationNodeRef |-> FALSE,
    animationFrameRef |-> NoFrame, dataBufferRef |-> FALSE,
    elSrc |-> NoSrc, elPaused |-> TRUE, elPos |-> 0, elStart |-> 0,
    elLoaded |-> FALSE,
    elBound |-> FALSE, videoSrc |-> NoSrc,
    connected |-> {}, rafPending |-> {}, mediaEvents |-> <<>>,
    waiting |-> <<>>, nUrls |-> 0, audioApi |-> api,
    nWorkers |-> 0, localError |-> ErrNone, mounted |-> TRUE,
    elRebind |-> rebind ]

AudioInit ==
  /\ audioOp = "none"
  /\ audioArg = NoArg
  /\ ap \in {AudioStart(TRUE, TRUE), AudioStart(TRUE, FALSE), AudioStart(FALSE, FALSE)}

\* --- the media element (HTMLMediaElement), as the hook drives it

\* audio.src = src; audio.load(), and removeAttribute("src"); load(): the
\* media element load algorithm (HTML Standard, 4.8.11.5) removes the
\* element's queued event tasks, pauses it without a pause event, and resets
\* the playback position, queueing timeupdate only if the position changed.
MediaLoad(s, src) ==
  [s EXCEPT !.elSrc = src, !.elPaused = TRUE, !.elLoaded = FALSE, !.elPos = 0,
            !.mediaEvents = IF s.elPos # 0 THEN <<"timeupdate">> ELSE <<>>]

\* audio.pause()
MediaPause(s) ==
  IF s.elPaused THEN s
  ELSE [s EXCEPT !.elPaused = TRUE,
                 !.mediaEvents = @ \o <<"timeupdate", "pause">>]

\* audio.play(), when the browser lets it start.
MediaPlay(s) ==
  IF s.elLoaded /\ s.elPos = MediaLength
    THEN [s EXCEPT !.elPaused = FALSE, !.elPos = 0,
                   !.mediaEvents = @ \o <<"timeupdate", "play">>]
    ELSE [s EXCEPT !.elPaused = FALSE, !.mediaEvents = @ \o <<"play">>]

\* The getter of audio.currentTime: the default playback start position
\* while one is set, the playback position otherwise.
MediaCurrentTime(s) == IF s.elStart # 0 THEN s.elStart ELSE s.elPos

\* A position brought into the range of the loaded medium.
ClampPos(v) == IF v < 0 THEN 0 ELSE IF v > MediaLength THEN MediaLength ELSE v

\* audio.currentTime = v.  Without a loaded medium the element only keeps v
\* as its default playback start position; with one it seeks to v brought
\* into the medium's range, and a playing element that lands on the end
\* ends there.
MediaSeek(s, v) ==
  IF ~s.elLoaded THEN [s EXCEPT !.elStart = v]
  ELSE IF ~s.elPaused /\ ClampPos(v) = MediaLength
    THEN [s EXCEPT !.elPos = MediaLength, !.elPaused = TRUE,
                   !.mediaEvents = @ \o <<"timeupdate", "ended">>]
    ELSE [s EXCEPT !.elPos = ClampPos(v), !.mediaEvents = @ \o <<"timeupdate">>]

\* audio.currentTime = 0
MediaRewind(s) == MediaSeek(s, 0)

\* audio.duration || 0
MediaDuration(s) == IF s.elLoaded THEN MediaLength ELSE 0

\* --- the hook

\* A requestAnimationFrame handle not in use: handles only matter up to
\* equality, so the least free one stands for the fresh one.
NewFrame(s) ==
  CHOOSE i \in 1..(Cardinality(s.rafPending) + 2) :
    /\ i \notin s.rafPending
    /\ i # s.animationFrameRef
    /\ \A j \in 1..(i - 1) : j \in s.rafPending \/ j = s.animationFrameRef

\* A source node not in use: nodes only matter up to equality, so the least
\* free one stands for the one createMediaElementSource returns.
NewNode(s) ==
  CHOOSE i \in 1..(Cardinality(s.connected) + 2) :
    /\ i \notin s.connected
    /\ i # s.sourceNodeRef
    /\ \A j \in 1..(i - 1) : j \in s.connected \/ j = s.sourceNodeRef

\* cleanupSource()
cleanupSource(s) ==
  [s EXCEPT !.connected = IF s.sourceNodeRef # NullRef THEN @ \ {s.sourceNodeRef} ELSE @,
            !.sourceNodeRef = NullRef,
            !.rafPending = IF s.animationFrameRef # NoFrame
                             THEN @ \ {s.animationFrameRef} ELSE @,
            !.animationFrameRef = NoFrame,
            !.audioLevel = 0]

\* The sampling callback registered whether or not one already is.
graphSampleAlways(s) ==
  [s EXCEPT !.animationFrameRef = NewFrame(s), !.rafPending = @ \cup {NewFrame(s)}]

\* The sampling callback is registered unless one already is (lines 105-107).
graphSample(s) ==
  IF s.animationFrameRef = NoFrame
    THEN [s EXCEPT !.animationFrameRef = NewFrame(s),
                   !.rafPending = @ \cup {NewFrame(s)}]
    ELSE s

\* createMediaElementSource and the connections (lines 98-103); the catch
\* reports the exception of a browser that refuses a second source node.
graphSource(s) ==
  IF s.elBound /\ ~s.elRebind THEN [s EXCEPT !.error = ErrElementBound]
  ELSE
    LET node == NewNode(s)
    IN graphSample([s EXCEPT !.sourceNodeRef = node, !.elBound = TRUE,
                             !.connected = @ \cup {node}])

\* Lines 77-109 without the disconnect of lines 94-96.
graphFinishKeepsOld(s) ==
  graphSource([s EXCEPT !.destinationNodeRef = TRUE, !.gainNodeRef = TRUE,
                        !.analyserRef = TRUE, !.dataBufferRef = TRUE])

\* ensureAudioGraph from the creation of the destination node on (lines
\* 77-109), inside the try.
graphFinish(s) ==
  graphSource([s EXCEPT !.destinationNodeRef = TRUE, !.gainNodeRef = TRUE,
                        !.analyserRef = TRUE, !.dataBufferRef = TRUE,
                        !.connected = IF s.sourceNodeRef # NullRef
                                        THEN @ \ {s.sourceNodeRef} ELSE @])

\* ensureAudioGraph up to `await ctx.resume()` (lines 64-75); fresh is the
\* state in which the browser creates a new context.
graphBegin(s, fresh) ==
  IF s.audioContextRef = "null" /\ s.audioApi
    THEN [s EXCEPT !.audioContextRef = fresh]
    ELSE s

\* resolveAudioContext throws: the catch reports it and the call returns.
GraphUnavailable(s) == s.audioContextRef = "null" /\ ~s.audioApi

\* The call has to wait for ctx.resume().
GraphSuspended(s, fresh) == graphBegin(s, fresh).audioContextRef = "suspended"

\* ensureAudioGraph when it runs without waiting.
ensureAudioGraph(s, fresh) ==
  IF GraphUnavailable(s) THEN [s EXCEPT !.error = ErrNoWebAudio]
  ELSE graphFinish(graphBegin(s, fresh))

\* setSourceMeta of the load operations.
withSourceMeta(s, type, file, url) ==
  [s EXCEPT !.sourceMeta = [type |-> type, label |-> file, url |-> url,
                            duration |-> IF type = "tts" THEN MediaLength ELSE 0]]

\* togglePlay after `await ensureAudioGraph(audio)`; allowed: the browser's
\* autoplay policy lets play() start.
togglePlayRest(s, allowed) ==
  IF s.elPaused
    THEN IF allowed /\ s.elSrc # NoSrc THEN MediaPlay(s)
         ELSE [s EXCEPT !.error = ErrPlayBlocked]
    ELSE MediaPause(s)

\* The part of a load operation before `await ensureAudioGraph(audio)`.
loadBegin(s, type, url) ==
  LET s1 == [cleanupSource(s) EXCEPT !.nUrls = url]
      s2 == IF type = "video" THEN [s1 EXCEPT !.videoSrc = url] ELSE s1
  IN MediaLoad(s2, url)

\* A call that waits for ctx.resume() is parked; otherwise it runs to its end.
runOrWait(s, fresh, call, rest) ==
  IF GraphSuspended(s, fresh)
    THEN [graphBegin(s, fresh) EXCEPT !.waiting = Append(@, call)]
    ELSE rest

\* release()
release(s) ==
  LET s1 == [cleanupSource(s) EXCEPT !.sourceMeta = NoMeta]
  IN MediaLoad(MediaPause(s1), NoSrc)

\* seek(value) with its guard removed.
seekUnguarded(s, value) == MediaSeek(s, value.v)

\* seek(value)
seek(s, value) == IF ~isFinite(value) THEN s ELSE MediaSeek(s, value.v)

\* captureStream() that hands the stream out only while a source node is held.
captureStreamWhileSource(s) == IF s.sourceNodeRef # NullRef THEN "stream" ELSE "null"

\* captureStream(): the destination node's stream, or null.
captureStream(s) == IF s.destinationNodeRef THEN "stream" ELSE "null"

\* --- actions

\* ctx.resume() has resolved and a parked call has not yet continued: its
\* continuation runs before any other task.
Draining == ap.audioContextRef = "running" /\ ap.waiting # <<>>

\* The page can call the hook: it is mounted and no continuation is due.
CanCall == ap.mounted /\ ~Draining

\* Object URLs are left for a new source, counting the ones that workers
\* still at work will need.
CanLoad == ap.nUrls + ap.nWorkers < MaxLoads

\* A load operation has run to its end: the page's handler clears its banner
\* (lines 547-577).
loadDone(s, type, file, url) ==
  [withSourceMeta(s, type, file, url) EXCEPT !.localError = ErrNone]

CanQueue == Len(ap.mediaEvents) + 2 <= MaxQueued

CanWait(fresh) == GraphSuspended(ap, fresh) => Len(ap.waiting) < MaxWaiting

loadAudioFile(file, fresh) ==
  LET url == ap.nUrls + 1
      s1 == loadBegin(ap, "upload", url)
  IN
  /\ CanCall
  /\ CanLoad
  /\ CanWait(fresh)
  /\ ap' = runOrWait(s1, fresh, [op |-> "load", type |-> "upload", file |-> file, url |-> url],
                     loadDone(ensureAudioGraph(s1, fresh), "upload", file, url))
  /\ audioOp' = "loadAudioFile"
  /\ audioArg' = NoArg
  /\ UNCHANGED <<exportVars, canvasVars, synthVars, frameVars>>

loadVideoFile(file, fresh) ==
  LET url == ap.nUrls + 1
      s1 == loadBegin(ap, "video", url)
  IN
  /\ CanCall
  /\ CanLoad
  /\ CanWait(fresh)
  /\ ap' = runOrWait(s1, fresh, [op |-> "load", type |-> "video", file |-> file, url |-> url],
                     loadDone(ensureAudioGraph(s1, fresh), "video", file, url))
  /\ audioOp' = "loadVideoFile"
  /\ audioArg' = NoArg
  /\ UNCHANGED <<exportVars, canvasVars, synthVars, frameVars>>

togglePlay(fresh, allowed) ==
  /\ CanCall
  /\ CanQueue
  /\ CanWait(fresh)
  /\ ap' = runOrWait(ap, fresh, [op |-> "togglePlay", allowed |-> allowed],
                     togglePlayRest(ensureAudioGraph(ap, fresh), allowed))
  /\ audioOp' = "togglePlay"
  /\ audioArg' = NoArg
  /\ UNCHANGED <<exportVars, canvasVars, synthVars, frameVars>>

stop ==
  /\ CanCall
  /\ CanQueue
  /\ ap' = MediaRewind(MediaPause(ap))
  /\ audioOp' = "stop"
  /\ audioArg' = NoArg
  /\ UNCHANGED <<exportVars, canvasVars, synthVars, frameVars>>

Seek(value) ==
  /\ CanCall
  /\ CanQueue
  /\ ap' = seek(ap, value)
  /\ audioOp' = "seek"
  /\ audioArg' = value
  /\ UNCHANGED <<exportVars, canvasVars, synthVars, frameVars>>

\* generateSpeech(text) with cleanupSource moved in front of the guard on the
\* text.
generateSpeechCleansFirst(s, text) ==
  IF Trim(text) = ""
    THEN [cleanupSource(s) EXCEPT !.error = ErrEmptyText, !.localError = ErrNone]
  ELSE IF ~s.audioApi THEN [cleanupSource(s) EXCEPT !.localError = ErrNoAudioContext]
  ELSE [cleanupSource(s) EXCEPT !.nWorkers = @ + 1]

\* generateSpeech(text) up to `await synthesizeSpeech(trimmed)`: the guard on
\* the text, cleanupSource, and in synthesizeSpeech the AudioContext for the
\* buffer (line 336), whose absence rejects the call, and the worker.
generateSpeechBegin(s, text) ==
  IF Trim(text) = "" THEN [s EXCEPT !.error = ErrEmptyText, !.localError = ErrNone]
  ELSE IF ~s.audioApi THEN [cleanupSource(s) EXCEPT !.localError = ErrNoAudioContext]
  ELSE [cleanupSource(s) EXCEPT !.nWorkers = @ + 1]

generateSpeech(text) ==
  /\ CanCall
  /\ CanLoad
  /\ ap' = generateSpeechBegin(ap, text)
  /\ audioOp' = "generateSpeech"
  /\ audioArg' = [kind |-> "text", v |-> IF Trim(text) = "" THEN 0 ELSE 1]
  /\ UNCHANGED <<exportVars, canvasVars, synthVars, frameVars>>

\* A worker answers with the encoded blob (lines 350-354): synthesizeSpeech
\* makes the object URL and generateSpeech goes on from line 259.
workerResolved(s, fresh) ==
  LET url == s.nUrls + 1
      s1 == MediaLoad([s EXCEPT !.nWorkers = @ - 1, !.nUrls = url], url)
  IN runOrWait(s1, fresh, [op |-> "load", type |-> "tts", file |-> SpeechLabel, url |-> url],
               loadDone(ensureAudioGraph(s1, fresh), "tts", SpeechLabel, url))

WorkerResult(fresh) ==
  /\ ~Draining
  /\ ap.nWorkers > 0
  /\ CanWait(fresh)
  /\ ap' = workerResolved(ap, fresh)
  /\ audioOp' = "workerResult"
  /\ audioArg' = NoArg
  /\ UNCHANGED <<exportVars, canvasVars, synthVars, frameVars>>

\* A worker answers with an error (lines 355-358): generateSpeech rejects and
\* the page's handler shows the message (lines 573-576).
workerFailed(s) == [s EXCEPT !.nWorkers = @ - 1, !.localError = ErrEncode]

WorkerError ==
  /\ ~Draining
  /\ ap.nWorkers > 0
  /\ ap' = workerFailed(ap)
  /\ audioOp' = "workerError"
  /\ audioArg' = NoArg
  /\ UNCHANGED <<exportVars, canvasVars, synthVars, frameVars>>

\* The page unmounts: the mount effect's cleanup removes the media element
\* listeners (lines 141-147); the hook has no other cleanup.
Unmount ==
  /\ CanCall
  /\ ap' = [ap EXCEPT !.mounted = FALSE]
  /\ audioOp' = "unmount"
  /\ audioArg' = NoArg
  /\ UNCHANGED <<exportVars, canvasVars, synthVars, frameVars>>

Release ==
  /\ CanCall
  /\ ap' = release(ap)
  /\ audioOp' = "release"
  /\ audioArg' = NoArg
  /\ UNCHANGED <<exportVars, canvasVars, synthVars, frameVars>>

\* The browser resumes the context some call asked it to resume.
ContextResumed ==
  /\ ap.audioContextRef = "suspended"
  /\ ap.waiting # <<>>
  /\ ap' = [ap EXCEPT !.audioContextRef = "running"]
  /\ audioOp' = "resumed"
  /\ audioArg' = NoArg
  /\ UNCHANGED <<exportVars, canvasVars, synthVars, frameVars>>

\* The oldest parked call continues after `await ctx.resume()`.
ContinueCall ==
  /\ Draining
  /\ LET call == Head(ap.waiting)
         s1 == graphFinish([ap EXCEPT !.waiting = Tail(@)])
     IN ap' = IF call.op = "load"
                THEN loadDone(s1, call.type, call.file, call.url)
                ELSE togglePlayRest(s1, call.allowed)
  /\ audioOp' = "continue"
  /\ audioArg' = NoArg
  /\ UNCHANGED <<exportVars, canvasVars, synthVars, frameVars>>

\* The level without the clamp.
LevelUnclamped(x) == x

\* level = Math.min(1, Math.max(0, rms * 8)), in hundredths.
Level(x) == IF x > 100 THEN 100 ELSE IF x < 0 THEN 0 ELSE x

\* What the analyser can read: silence unless a playing source feeds it.
Signal(s) ==
  IF s.connected # {} /\ ~s.elPaused /\ s.elLoaded THEN RmsTimes8 ELSE {0}

\* The display frame runs a registered analyseLevel callback.
analyseLevel(id, x) ==
  /\ ~Draining
  /\ id \in ap.rafPending
  /\ x \in Signal(ap)
  /\ LET s1 == [ap EXCEPT !.rafPending = @ \ {id}]
         s2 == IF s1.analyserRef /\ s1.dataBufferRef
                 THEN [s1 EXCEPT !.audioLevel = Level(x)] ELSE s1
     IN ap' = [s2 EXCEPT !.animationFrameRef = NewFrame(s2),
                         !.rafPending = @ \cup {NewFrame(s2)}]
  /\ audioOp' = "analyseLevel"
  /\ audioArg' = NoArg
  /\ UNCHANGED <<exportVars, canvasVars, synthVars, frameVars>>

\* The resource of audio.src has its metadata: loadedmetadata is queued, and
\* the element moves to a default playback start position that was set.
MetadataLoaded ==
  /\ ~Draining
  /\ CanQueue
  /\ ap.elSrc # NoSrc
  /\ ~ap.elLoaded
  /\ ap' = IF ap.elStart # 0
             THEN [ap EXCEPT !.elLoaded = TRUE, !.elPos = ClampPos(ap.elStart),
                             !.elStart = 0,
                             !.mediaEvents = @ \o <<"loadedmetadata", "timeupdate">>]
             ELSE [ap EXCEPT !.elLoaded = TRUE,
                             !.mediaEvents = @ \o <<"loadedmetadata">>]
  /\ audioOp' = "metadata"
  /\ audioArg' = NoArg
  /\ UNCHANGED <<exportVars, canvasVars, synthVars, frameVars>>

\* Playback advances.  At the end of the medium the element pauses itself
\* and fires timeupdate, pause and ended; pause and ended run the same
\* listener (lines 136-137) back to back, so ended stands for both.
Advance ==
  /\ ~Draining
  /\ CanQueue
  /\ ~ap.elPaused
  /\ ap.elLoaded
  /\ ap.elPos < MediaLength
  /\ ap' = IF ap.elPos + 1 = MediaLength
             THEN [ap EXCEPT !.elPos = @ + 1, !.elPaused = TRUE,
                             !.mediaEvents = @ \o <<"timeupdate", "ended">>]
             ELSE [ap EXCEPT !.elPos = @ + 1,
                             !.mediaEvents = @ \o <<"timeupdate">>]
  /\ audioOp' = "advance"
  /\ audioArg' = NoArg
  /\ UNCHANGED <<exportVars, canvasVars, synthVars, frameVars>>

\* The listeners of the mount effect (lines 121-140), for the oldest event.
handleMediaEvent(s) ==
  LET e == Head(s.mediaEvents)
      s1 == [s EXCEPT !.mediaEvents = Tail(@)]
  IN CASE e = "timeupdate" -> [s1 EXCEPT !.currentTime = MediaCurrentTime(s1)]
       [] e = "loadedmetadata" ->
            [s1 EXCEPT !.duration = MediaDuration(s1),
                       !.sourceMeta = IF @ # NoMeta
                                        THEN [@ EXCEPT !.duration = MediaDuration(s1)]
                                        ELSE @]
       [] e = "play" -> [s1 EXCEPT !.isPlaying = TRUE]
       [] e \in {"pause", "ended"} -> [s1 EXCEPT !.isPlaying = FALSE]

\* The browser delivers the oldest queued media element event.
MediaEvent ==
  /\ ~Draining
  /\ ap.mediaEvents # <<>>
  /\ ap' = IF ap.mounted THEN handleMediaEvent(ap)
           ELSE [ap EXCEPT !.mediaEvents = Tail(@)]
  /\ audioOp' = "mediaEvent"
  /\ audioArg' = NoArg
  /\ UNCHANGED <<exportVars, canvasVars, synthVars, frameVars>>

AudioNext ==
  \/ \E f \in Files, fresh \in {"running", "suspended"} : loadAudioFile(f, fresh)
  \/ \E f \in Files, fresh \in {"running", "suspended"} : loadVideoFile(f, fresh)
  \/ \E fresh \in {"running", "suspended"}, allowed \in BOOLEAN : togglePlay(fresh, allowed)
  \/ stop
  \/ Release
  \/ \E text \in Texts : generateSpeech(text)
  \/ \E fresh \in {"running", "suspended"} : WorkerResult(fresh)
  \/ WorkerError
  \/ ContextResumed
  \/ ContinueCall
  \/ \E id \in 1..3, x \in RmsTimes8 : analyseLevel(id, x)
  \/ MetadataLoaded
  \/ Advance
  \/ MediaEvent

\* ============================================================ avatar canvas

\* Image loads that can be in flight at one time.
MaxImageLoads == 3

\* avatarSource: the two presets and an uploaded picture, or none.
AvatarSources == {"presetA", "presetB", "upload"}
NoAvatar == "null"

\* The page starts with the first preset (page, line 463), whose load the
\* image effect has started; nothing is cached yet.
AvatarStart ==
  [ avatarSource |-> "presetA", imageRef |-> NoAvatar,
    pending |-> [src \in AvatarSources |-> IF src = "presetA" THEN 1 ELSE 0] ]

RECURSIVE SumPending(_, _)
SumPending(pending, srcs) ==
  IF srcs = {} THEN 0
  ELSE LET src == CHOOSE x \in srcs : TRUE
       IN pending[src] + SumPending(pending, srcs \ {src})

\* Loads in flight.
InFlight == SumPending(av.pending, AvatarSources)

\* avatarSource changes: the cleanup of the image effect clears the cache
\* (lines 84-86) and the effect runs for the new source (lines 69-83).
setAvatarSource(src) ==
  /\ src # av.avatarSource
  /\ src # NoAvatar => InFlight < MaxImageLoads
  /\ av' = [av EXCEPT !.avatarSource = src, !.imageRef = NoAvatar,
                      !.pending = IF src = NoAvatar THEN @
                                  ELSE [@ EXCEPT ![src] = @ + 1]]
  /\ UNCHANGED <<exportVars, audioVars, face, loop, synthVars, frameVars>>

\* img.onload of a load in flight (lines 77-79): the closure caches its own
\* image under its own source.
ImageLoaded(src) ==
  /\ av.pending[src] > 0
  /\ av' = [av EXCEPT !.pending[src] = @ - 1, !.imageRef = src]
  /\ UNCHANGED <<exportVars, audioVars, face, loop, synthVars, frameVars>>

\* img.onerror of a load in flight (lines 80-82).
ImageFailed(src) ==
  /\ av.pending[src] > 0
  /\ av' = [av EXCEPT !.pending[src] = @ - 1, !.imageRef = NoAvatar]
  /\ UNCHANGED <<exportVars, audioVars, face, loop, synthVars, frameVars>>

AvatarNext ==
  \/ \E src \in AvatarSources \cup {NoAvatar} : setAvatarSource(src)
  \/ \E src \in AvatarSources : ImageLoaded(src)
  \/ \E src \in AvatarSources : ImageFailed(src)

\* --- the face

\* One, in the unit mouthOpen is computed in: with audioLevel in hundredths,
\* audioLevel * (0.65 + surprised / 180) + (happy - sad) / 400 is
\* (audioLevel * (117 + surprised) + 45 * (happy - sad)) / 18000.
MouthScale == 18000

\* audioLevel, in hundredths.
LevelValues == {0, 50, 100}

\* Emotion weights: the ends and the middle of the sliders (0..100) and the
\* page's start values (page, lines 468-474).
EmotionValues == {0, 12, 24, 50, 52, 100}

EmotionKeys == {"happy", "sad", "surprised"}

\* The value as it is.
clampNone(value) == value

\* clamp01
clamp01(value) ==
  IF value < 0 THEN 0 ELSE IF value > MouthScale THEN MouthScale ELSE value

\* mouthOpen of drawFacialFeatures (lines 286-287).
mouthOpen(audioLevel, emotions) ==
  clamp01(audioLevel * (117 + emotions.surprised)
            + 45 * (emotions.happy - emotions.sad))

\* The frame the render effect draws when an input changes (line 165).
drawn(audioLevel, emotions) ==
  [ audioLevel |-> audioLevel, emotions |-> emotions,
    mouthOpen |-> mouthOpen(audioLevel, emotions) ]

FaceStart == drawn(0, [happy |-> 52, sad |-> 12, surprised |-> 24])

\* A slider of the control panel moves (page, lines 536-541).
handleEmotionChange(key, value) ==
  /\ face' = drawn(face.audioLevel, [face.emotions EXCEPT ![key] = value])
  /\ UNCHANGED <<exportVars, audioVars, av, loop, synthVars, frameVars>>

\* The hook hands the canvas a new audioLevel.
LevelChange(level) ==
  /\ face' = drawn(level, face.emotions)
  /\ UNCHANGED <<exportVars, audioVars, av, loop, synthVars, frameVars>>

FaceNext ==
  \/ \E key \in EmotionKeys, value \in EmotionValues : handleEmotionChange(key, value)
  \/ \E level \in LevelValues : LevelChange(level)

\* --- the render loop

\* Time is counted in units of 400 ms: a blink is due after more than
\* 2800 ms + Math.random() * 2000 ms (line 113), that is after more than
\* BlinkMin units plus a draw below BlinkSpread units.
BlinkMin == 7
BlinkSpread == 5

\* What Math.random() * 2000 can come to, in whole units.
Randoms == 0..(BlinkSpread - 1)

\* The time between two display frames: less than a unit, a unit, and the
\* long gaps of a page that was not displayed for a while.
FrameGaps == {0, 1, BlinkMin + 1, BlinkMin + BlinkSpread}

\* cameraAngle: the five of the type and a value outside it.
CameraAngles == {"front", "threeQuarterLeft", "threeQuarterRight", "closeUp", "wide", "profile"}

\* computeCameraOffset that knows the default only.
computeCameraOffsetFront(angle) == [x |-> 0, y |-> 52, scale |-> 100]

\* computeCameraOffset; y and scale in hundredths.
computeCameraOffset(angle) ==
  CASE angle = "threeQuarterLeft" -> [x |-> 0 - 30, y |-> 52, scale |-> 102]
    [] angle = "threeQuarterRight" -> [x |-> 30, y |-> 52, scale |-> 102]
    [] angle = "closeUp" -> [x |-> 0, y |-> 45, scale |-> 118]
    [] angle = "wide" -> [x |-> 0, y |-> 58, scale |-> 92]
    [] OTHER -> [x |-> 0, y |-> 52, scale |-> 100]

\* The blink trigger of render (lines 111-117); r is the draw.
blinkDue(b, r) == b.elapsed > BlinkMin + r

blinkTrigger(b, r) ==
  IF blinkDue(b, r)
    THEN [b EXCEPT !.closing = TRUE, !.target = 0, !.elapsed = 0]
    ELSE b

\* The blink state machine without its clamps to 0 and 1.
blinkStepUnclamped(b) ==
  IF b.closing
    THEN IF b.openness - 15 <= 0
           THEN [b EXCEPT !.openness = @ - 15, !.closing = FALSE, !.target = 100]
           ELSE [b EXCEPT !.openness = @ - 15]
  ELSE IF b.openness < b.target
    THEN [b EXCEPT !.openness = @ + 12]
  ELSE b

\* The blink state machine opening as fast as it closes.
blinkStepOpensFast(b) ==
  IF b.closing
    THEN IF b.openness - 15 <= 0
           THEN [b EXCEPT !.openness = 0, !.closing = FALSE, !.target = 100]
           ELSE [b EXCEPT !.openness = @ - 15]
  ELSE IF b.openness < b.target
    THEN IF b.openness + 15 >= 100
           THEN [b EXCEPT !.openness = 100]
           ELSE [b EXCEPT !.openness = @ + 15]
  ELSE b

\* The blink state machine of render (lines 119-133); openness in hundredths.
blinkStep(b) ==
  IF b.closing
    THEN IF b.openness - 15 <= 0
           THEN [b EXCEPT !.openness = 0, !.closing = FALSE, !.target = 100]
           ELSE [b EXCEPT !.openness = @ - 15]
  ELSE IF b.openness < b.target
    THEN IF b.openness + 12 >= 100
           THEN [b EXCEPT !.openness = 100]
           ELSE [b EXCEPT !.openness = @ + 12]
  ELSE b

\* Render steps a blink takes: 7 to close, 9 more to open.
BlinkSteps == 16

\* The number of render steps since the last trigger that found the eye
\* open, that trigger's step included; 0 while none is followed.
phaseAfter(b, r) ==
  IF blinkDue(b, r)
    THEN IF b.openness = 100 /\ ~b.closing THEN 1 ELSE 0
  ELSE IF b.phase = 0 THEN 0
  ELSE IF b.phase > BlinkSteps THEN b.phase
  ELSE b.phase + 1

\* One call of render (lines 110-153).
renderStep(b, r) ==
  [blinkStep(blinkTrigger(b, r)) EXCEPT
     !.camera = computeCameraOffset(b.cameraAngle),
     !.phase = phaseAfter(b, r)]

\* After mount: the render effect has run and drawn once (line 156).
\* elapsed is performance.now() - lastBlinkTime at the last render, dirty a
\* state update not yet rendered; restarted and stepsInFrame record whether
\* the effect ran again and how often render ran since the last display
\* frame began.
LoopStart ==
  [ closing |-> FALSE, openness |-> 100, target |-> 100, elapsed |-> 0,
    dirty |-> FALSE, cameraAngle |-> "front",
    camera |-> computeCameraOffset("front"),
    restarted |-> FALSE, stepsInFrame |-> 0, phase |-> 0 ]

\* A display frame: the registered render runs (line 153), and so does the
\* page's animate (page, lines 503-510), which moves microMotion whenever more
\* than 32 ms have passed since it last did.
Frame(gap, r, motion) ==
  /\ ~loop.dirty
  /\ gap >= 1 => motion
  /\ LET due == IF loop.elapsed + gap > BlinkMin + BlinkSpread
                  THEN BlinkMin + BlinkSpread ELSE loop.elapsed + gap
     IN loop' = [renderStep([loop EXCEPT !.elapsed = due], r) EXCEPT
                   !.stepsInFrame = 1, !.dirty = motion]
  /\ UNCHANGED <<exportVars, audioVars, av, face, synthVars, frameVars>>

\* React renders a changed prop: the render effect's cleanup cancels the
\* registered frame (line 158) and the effect runs again, with a new
\* lastBlinkTime and a render of its own (lines 109-156).
Rerender ==
  /\ loop.dirty
  /\ loop' = [renderStep([loop EXCEPT !.elapsed = 0], 0) EXCEPT
                !.dirty = FALSE, !.restarted = TRUE,
                !.stepsInFrame = IF @ < 2 THEN @ + 1 ELSE @]
  /\ UNCHANGED <<exportVars, audioVars, av, face, synthVars, frameVars>>

\* The user or the audio pipeline changes a prop the effect depends on other
\* than the camera (lines 159-170).
PropChange ==
  /\ ~loop.dirty
  /\ loop' = [loop EXCEPT !.dirty = TRUE]
  /\ UNCHANGED <<exportVars, audioVars, av, face, synthVars, frameVars>>

\* The control panel picks a camera angle (page, line 660).
setCameraAngle(angle) ==
  /\ ~loop.dirty
  /\ angle # loop.cameraAngle
  /\ loop' = [loop EXCEPT !.cameraAngle = angle, !.dirty = TRUE]
  /\ UNCHANGED <<exportVars, audioVars, av, face, synthVars, frameVars>>

\* Display frames one time unit apart.
RegularFrame == \E r \in Randoms : Frame(1, r, TRUE)

RenderNext ==
  \/ \E gap \in FrameGaps, r \in Randoms, motion \in BOOLEAN : Frame(gap, r, motion)
  \/ Rerender
  \/ PropChange
  \/ \E angle \in CameraAngles : setCameraAngle(angle)

CanvasInit ==
  /\ av = AvatarStart
  /\ face = FaceStart
  /\ loop = LoopStart

\* The operations around seek: a clip is loaded, played, sought in and
\* released.
SeekNext ==
  \/ \E f \in Files : loadAudioFile(f, "running")
  \/ togglePlay("running", TRUE)
  \/ stop
  \/ \E value \in SeekValues : Seek(value)
  \/ Release
  \/ MetadataLoaded
  \/ Advance
  \/ MediaEvent

\* ------------------------------------------------------------ encoding worker
\* bufferToWav and its worker, one slot for each worker that can be at work.
\* phase: "convert" while the request is with the worker, "result" or
\* "error" while its answer is on the way back, "resolved" or "rejected"
\* once the promise of bufferToWav has settled.

WorkerSlots == 1..MaxLoads

NoWorker == [phase |-> "free", posted |-> 0, settled |-> 0, terminated |-> FALSE]

NoWorkers == [k \in WorkerSlots |-> NoWorker]

Idle(w) == w.phase \in {"free", "resolved", "rejected"}

\* createWavWorker: the slot of the new worker
NewWorker ==
  CHOOSE k \in WorkerSlots :
    Idle(workers[k]) /\ \A j \in WorkerSlots : Idle(workers[j]) => k <= j

\* The page's handleGenerateSpeech: generateSpeech up to the await, and in
\* bufferToWav the worker and the request posted to it.
handleGenerateSpeech(text) ==
  /\ CanCall
  /\ CanLoad
  /\ \E k \in WorkerSlots : Idle(workers[k])
  /\ ap' = generateSpeechBegin(ap, text)
  /\ workers' = IF ap'.nWorkers > ap.nWorkers
                  THEN [workers EXCEPT ![NewWorker] = [NoWorker EXCEPT !.phase = "convert"]]
                  ELSE workers
  /\ audioOp' = "generateSpeech"
  /\ audioArg' = [kind |-> "text", v |-> IF Trim(text) = "" THEN 0 ELSE 1]
  /\ UNCHANGED <<exportVars, canvasVars, synth, frameVars>>

\* The worker's handler without its catch: a failure of the encoder ends
\* the handler with nothing posted.
selfOnmessageNoCatch(w, ok) ==
  IF ok THEN [w EXCEPT !.phase = "result", !.posted = @ + 1]
        ELSE [w EXCEPT !.phase = "threw"]

\* self.onmessage of the worker for a "convert" request: it posts the
\* result, or the error it caught.
selfOnmessage(w, ok) ==
  [w EXCEPT !.phase = IF ok THEN "result" ELSE "error", !.posted = @ + 1]

\* The worker runs; ok: the encoder did not throw.
WorkerConvert(k, ok) ==
  /\ workers[k].phase = "convert"
  /\ workers' = [workers EXCEPT ![k] = selfOnmessage(@, ok)]
  /\ UNCHANGED <<exportVars, audioVars, canvasVars, synth, frameVars>>

\* worker.onmessage of bufferToWav: resolve or reject, then terminate.
onmessage(w) ==
  IF w.phase = "result"
    THEN [w EXCEPT !.phase = "resolved", !.settled = @ + 1, !.terminated = TRUE]
  ELSE IF w.phase = "error"
    THEN [w EXCEPT !.phase = "rejected", !.settled = @ + 1, !.terminated = TRUE]
  ELSE w

\* The answer of worker k arrives: the promise settles and the calls that
\* await it go on, generateSpeech from line 259 or the catch of the page's
\* handler.
WorkerOnMessage(k, fresh) ==
  /\ ~Draining
  /\ workers[k].phase \in {"result", "error"}
  /\ workers[k].phase = "result" => CanWait(fresh)
  /\ workers' = [workers EXCEPT ![k] = onmessage(@)]
  /\ ap' = IF workers[k].phase = "result" THEN workerResolved(ap, fresh)
                                          ELSE workerFailed(ap)
  /\ audioOp' = IF workers[k].phase = "result" THEN "workerResult" ELSE "workerError"
  /\ audioArg' = NoArg
  /\ UNCHANGED <<exportVars, canvasVars, synth, frameVars>>

WorkerNext ==
  \/ \E text \in Texts : handleGenerateSpeech(text)
  \/ \E k \in WorkerSlots, ok \in BOOLEAN : WorkerConvert(k, ok)
  \/ \E k \in WorkerSlots, fresh \in {"running", "suspended"} : WorkerOnMessage(k, fresh)
  \/ Release
  \/ ContextResumed
  \/ ContinueCall

\* ------------------------------------------------------------ synthesizer
\* synthesizeSpeech and the WAV encoder of the worker.  Durations are in
\* milliseconds and sample values in units of 1/SampleScale; for the texts
\* and samples below the doubles of the code take exactly these values.

\* The longest text handed to the synthesizer and the longest sample
\* buffer handed to the encoder.
MaxText == 3
MaxSamples == 2

\* Characters of a text: letters of both cases, the space and a digit.
Chars == {"H", "h", "i", " ", "1"}

\* ch.charCodeAt(0)
charCodeAt(ch) ==
  CASE ch = "H" -> 72
    [] ch = "h" -> 104
    [] ch = "i" -> 105
    [] ch = " " -> 32
    [] ch = "1" -> 49

\* Lengths of a run of spaces between two letters, in texts long enough to
\* pass the floor of 0.9 s.
LongRuns == {15, 18, 19, 20}

LongTexts == {<<"h">> \o [i \in 1..n |-> " "] \o <<"i">> : n \in LongRuns}

SpeechTexts == UNION {[1..n -> Chars] : n \in 0..MaxText} \cup LongTexts

Max(a, b) == IF a >= b THEN a ELSE b
Min(a, b) == IF a <= b THEN a ELSE b

\* text.trim(), as generateSpeech applies it before the call
RECURSIVE trim(_)
trim(text) ==
  IF text = <<>> THEN text
  ELSE IF Head(text) = " " THEN trim(Tail(text))
  ELSE IF text[Len(text)] = " " THEN trim(SubSeq(text, 1, Len(text) - 1))
  ELSE text

\* text.split(/\s+/).filter(Boolean).length: the runs of characters other
\* than white space
words(text) ==
  Cardinality({i \in 1..Len(text) :
                 text[i] # " " /\ (i = 1 \/ text[i - 1] = " ")})

\* text.replace(/[^a-z ]/gi, "").split(""): the flag i keeps the letters of
\* both cases, and nothing changes their case
phonemes(text) == SelectSeq(text, LAMBDA ch : ch \in {"H", "h", "i", " "})

\* a text with its letters in lower case
toLowerCase(text) == [i \in 1..Len(text) |-> IF text[i] = "H" THEN "h" ELSE text[i]]

sampleRate == 48000

\* Math.floor(sampleRate * seconds), the seconds given in milliseconds
floorSamples(ms) == (sampleRate * ms) \div 1000

\* the duration as the sum of what each phoneme lasts
RECURSIVE sumOfPhonemes(_)
sumOfPhonemes(ph) ==
  IF ph = <<>> THEN 0
  ELSE (IF Head(ph) = " " THEN 80 ELSE 60) + sumOfPhonemes(Tail(ph))

baseDurationSummed(text) == sumOfPhonemes(phonemes(text))

baseDuration(text) == Max(Len(phonemes(text)) * 55, 900)

fullDuration(text) == baseDuration(text) + words(text) * 80

bufferLength(text) == floorSamples(fullDuration(text))

phonemeDuration(ch) == Max(40, IF ch = " " THEN 80 ELSE 60)

freq(ch) == 160 + ((charCodeAt(ch) * 13) % 120)

\* The loop over the phonemes: each adds a burst of its frequency at the
\* position reached, cut at the end of the buffer, and the position moves
\* on by the length of the burst less 15 ms.
RECURSIVE bursts(_, _, _)
bursts(ph, position, size) ==
  IF ph = <<>> THEN <<>>
  ELSE LET length == floorSamples(phonemeDuration(Head(ph)))
       IN <<[freq |-> freq(Head(ph)), position |-> position, length |-> length,
             written |-> Max(0, Min(length, size - position))]>>
          \o bursts(Tail(ph), position + length - floorSamples(15), size)

wavHeaderRiffOff(n, rate) ==
  [ byteLength |-> 44 + n * 2, riff |-> "RIFF", chunkSize |-> (44 + n * 2),
    wave |-> "WAVE", fmt |-> "fmt ", fmtSize |-> 16, format |-> 1, channels |-> 1,
    sampleRate |-> rate, byteRate |-> (rate * 2),
    blockAlign |-> 2, bitsPerSample |-> 16, data |-> "data",
    dataSize |-> (n * 2) ]

\* encodeWav, the 44 bytes in front of the samples, for n samples.  The
\* fields of 32 bits hold these numbers as they are: a buffer of the
\* browser has fewer than 2^31 samples.
wavHeader(n, rate) ==
  [ byteLength |-> 44 + n * 2, riff |-> "RIFF", chunkSize |-> (36 + n * 2),
    wave |-> "WAVE", fmt |-> "fmt ", fmtSize |-> 16, format |-> 1, channels |-> 1,
    sampleRate |-> rate, byteRate |-> (rate * 2),
    blockAlign |-> 2, bitsPerSample |-> 16, data |-> "data",
    dataSize |-> (n * 2) ]

\* Sample values are multiples of 1/SampleScale.
SampleScale == 65536

\* Samples at and next to the ends and the middle of the range, and two
\* outside it.
SampleValues ==
  {0 - 98304, 0 - 65536, 0 - 65535, 0 - 32769, 0 - 1, 0, 1, 32769, 65535, 65536, 98304}

SampleRates == {8000, 44100, 48000}

SampleBuffers == UNION {[1..n -> SampleValues] : n \in 0..MaxSamples}

\* DataView.setInt16 of a number: its fraction is dropped, the rest wraps
\* into 16 bits.  p / q is the number.
toInt16(p, q) ==
  LET t == IF p >= 0 THEN p \div q ELSE 0 - ((0 - p) \div q)
  IN ((t + 32768) % 65536) - 32768

\* s * 0x8000 is s / (SampleScale / 32768) in the units of the samples, and
\* s * 0x7fff is s * 32767 / SampleScale.
floatTo16BitPCM(input) ==
  [i \in 1..Len(input) |->
     LET s == Max(0 - SampleScale, Min(SampleScale, input[i]))
     IN IF s < 0 THEN toInt16(s, SampleScale \div 32768)
                 ELSE toInt16(s * 32767, SampleScale)]

encodeWav(samples, rate) ==
  [header |-> wavHeader(Len(samples), rate), pcm |-> floatTo16BitPCM(samples)]

\* The samples of a buffer are what the bursts add into its zeros.
synthesizeSpeech(text) ==
  [ duration |-> fullDuration(text),
    samples |-> [length |-> bufferLength(text),
                 bursts |-> bursts(phonemes(text), 0, bufferLength(text))],
    blob |-> wavHeader(bufferLength(text), sampleRate) ]

NoCall == [call |-> "none"]

\* generateSpeech hands its trimmed text to synthesizeSpeech.
SynthesizeSpeech ==
  /\ synth.call = "text"
  /\ trim(synth.text) # <<>>
  /\ synth' = [call |-> "synthesizeSpeech", text |-> trim(synth.text),
               speech |-> synthesizeSpeech(trim(synth.text))]
  /\ UNCHANGED <<exportVars, audioVars, canvasVars, workers, frameVars>>

\* The worker encodes the buffer it was sent.
EncodeWav ==
  /\ synth.call = "samples"
  /\ synth' = [call |-> "encodeWav", samples |-> synth.samples, rate |-> synth.rate,
               wav |-> encodeWav(synth.samples, synth.rate)]
  /\ UNCHANGED <<exportVars, audioVars, canvasVars, workers, frameVars>>

SynthNext == SynthesizeSpeech \/ EncodeWav

\* The inputs of the two functions: a text typed by the user, or a buffer
\* of samples at a rate.
SynthInputs ==
  [call : {"text"}, text : SpeechTexts]
    \cup [call : {"samples"}, samples : SampleBuffers, rate : SampleRates]

SynthInit ==
  /\ synth = NoCall
  /\ workers = NoWorkers

\* ------------------------------------------------------------ idle micro-motion
\* The page's animate callback (page, lines 500-513).  Times are in
\* milliseconds, microMotion in thousandths.

\* The last timestamp a display frame can have.
MaxClock == 100

\* Milliseconds between two display frames: a fast display, 60 Hz, 30 Hz and
\* a frame that was late.
FrameTimes == {1, 16, 17, 32, 33, 50}

\* After mount: the effect has read performance.now() into lastUpdate.
MicroStart(lastUpdate) == [now |-> 0, lastUpdate |-> lastUpdate, microMotion |-> 0]

\* animate without the test of delta.
animateEveryFrame(m, timestamp) ==
  [m EXCEPT !.microMotion = @ + (timestamp - m.lastUpdate) * 5,
            !.lastUpdate = timestamp, !.now = timestamp]

\* animate(timestamp): delta * 0.005 is delta * 5 thousandths.
animate(m, timestamp) ==
  LET delta == timestamp - m.lastUpdate
  IN IF delta > 32
       THEN [m EXCEPT !.microMotion = @ + delta * 5, !.lastUpdate = timestamp,
                      !.now = timestamp]
       ELSE [m EXCEPT !.now = timestamp]

\* A display frame runs animate with its timestamp.
Animate(gap) ==
  /\ micro.now + gap <= MaxClock
  /\ micro' = animate(micro, micro.now + gap)
  /\ UNCHANGED <<exportVars, audioVars, canvasVars, synthVars, sched>>

MicroNext == \E gap \in FrameTimes : Animate(gap)

\* ------------------------------------------------------------ display frames
\* The callbacks the display runs each frame: analyseLevel of the audio
\* pipeline and render of the canvas.  queue holds the registered callbacks
\* in the order of their registration, running the ones of the frame under
\* way that have not run yet.  audioLevel is the hook's state, propLevel the
\* audioLevel prop that the render effect of the canvas closed over at
\* React's last render; drawn records the last call of render.

\* Frames of the display the model follows.
MaxFrames == 3

NoLevel == 0 - 1

NoDraw == [level |-> NoLevel, sampled |-> NoLevel, sampling |-> FALSE, mounted |-> TRUE]

SchedStart ==
  [ queue |-> <<[id |-> 1, fn |-> "render"]>>, running |-> <<>>, inFrame |-> FALSE,
    frames |-> 0, sampling |-> FALSE, sampled |-> NoLevel,
    audioLevel |-> 0, propLevel |-> 0,
    animationFrame |-> 1, animationFrameRef |-> NoFrame,
    mounted |-> TRUE, drawn |-> [NoDraw EXCEPT !.level = 0] ]

Handles(s) ==
  {s.queue[i].id : i \in DOMAIN s.queue} \cup {s.running[i].id : i \in DOMAIN s.running}

\* requestAnimationFrame: a handle not in use; handles only matter up to
\* equality, so the least free one stands for the fresh one.
NewHandle(s) ==
  CHOOSE i \in 1..(Cardinality(Handles(s)) + 3) :
    /\ i \notin Handles(s) \cup {s.animationFrame, s.animationFrameRef}
    /\ \A j \in 1..(i - 1) : j \in Handles(s) \cup {s.animationFrame, s.animationFrameRef}

requestAnimationFrame(s, fn) ==
  [s EXCEPT !.queue = Append(@, [id |-> NewHandle(s), fn |-> fn])]

cancelAnimationFrame(s, id) ==
  [s EXCEPT !.queue = SelectSeq(@, LAMBDA c : c.id # id),
            !.running = SelectSeq(@, LAMBDA c : c.id # id)]

\* The cleanup of the render effect without its cancelAnimationFrame.
cleanupKeepsFrame(s) == s

\* The cleanup of the render effect (line 158).
cleanup(s) == cancelAnimationFrame(s, s.animationFrame)

\* render() (lines 110-154): draws with the audioLevel of its closure and
\* registers itself.
render(s) ==
  [requestAnimationFrame(s, "render") EXCEPT
     !.animationFrame = NewHandle(s),
     !.drawn = [level |-> s.propLevel,
                sampled |-> IF s.inFrame THEN s.sampled ELSE NoLevel,
                sampling |-> s.inFrame /\ s.sampling,
                mounted |-> s.mounted]]

\* ensureAudioGraph has built the graph and registers analyseLevel (lines
\* 105-107).
SchedEnsureGraph ==
  /\ ~sched.inFrame
  /\ sched.mounted
  /\ sched.animationFrameRef = NoFrame
  /\ sched' = [requestAnimationFrame(sched, "analyseLevel") EXCEPT
                 !.animationFrameRef = NewHandle(sched)]
  /\ UNCHANGED <<exportVars, audioVars, canvasVars, synthVars, micro>>

\* The display begins a frame: it will run the callbacks registered so far.
DisplayFrame ==
  /\ ~sched.inFrame
  /\ sched.queue # <<>>
  /\ sched.frames < MaxFrames
  /\ sched' = [sched EXCEPT
                 !.running = sched.queue, !.queue = <<>>, !.inFrame = TRUE,
                 !.frames = @ + 1, !.sampled = NoLevel,
                 !.sampling = \E i \in DOMAIN sched.queue :
                                 sched.queue[i].fn = "analyseLevel"]
  /\ UNCHANGED <<exportVars, audioVars, canvasVars, synthVars, micro>>

\* The frame runs analyseLevel (lines 46-60): setAudioLevel(level), and the
\* callback registers itself.
RunAnalyseLevel(x) ==
  /\ sched.running # <<>>
  /\ Head(sched.running).fn = "analyseLevel"
  /\ LET s1 == [sched EXCEPT !.running = Tail(@), !.audioLevel = Level(x),
                             !.sampled = Level(x)]
     IN sched' = [requestAnimationFrame(s1, "analyseLevel") EXCEPT
                    !.animationFrameRef = NewHandle(s1)]
  /\ UNCHANGED <<exportVars, audioVars, canvasVars, synthVars, micro>>

\* The frame runs render.
RunRender ==
  /\ sched.running # <<>>
  /\ Head(sched.running).fn = "render"
  /\ sched' = render([sched EXCEPT !.running = Tail(@)])
  /\ UNCHANGED <<exportVars, audioVars, canvasVars, synthVars, micro>>

\* The callbacks of the frame have run.
FrameEnd ==
  /\ sched.inFrame
  /\ sched.running = <<>>
  /\ sched' = [sched EXCEPT !.inFrame = FALSE]
  /\ UNCHANGED <<exportVars, audioVars, canvasVars, synthVars, micro>>

\* React renders the page with the audioLevel that was set: the render
\* effect of the canvas is cleaned up and runs again with the new prop
\* (lines 99-171).  React does this in a task of its own, never between the
\* callbacks of a frame.
ReactCommit ==
  /\ ~sched.inFrame
  /\ sched.mounted
  /\ sched.audioLevel # sched.propLevel
  /\ sched' = render([cleanup(sched) EXCEPT !.propLevel = sched.audioLevel])
  /\ UNCHANGED <<exportVars, audioVars, canvasVars, synthVars, micro>>

\* The canvas unmounts: the cleanup of its effect runs.
CanvasUnmount ==
  /\ ~sched.inFrame
  /\ sched.mounted
  /\ sched' = [cleanup(sched) EXCEPT !.mounted = FALSE]
  /\ UNCHANGED <<exportVars, audioVars, canvasVars, synthVars, micro>>

SchedNext ==
  \/ SchedEnsureGraph
  \/ DisplayFrame
  \/ \E x \in RmsTimes8 : RunAnalyseLevel(x)
  \/ RunRender
  \/ FrameEnd
  \/ ReactCommit
  \/ CanvasUnmount

FrameInit ==
  /\ micro = MicroStart(0)
  /\ sched = SchedStart

\* ------------------------------------------------------------ specifications

Init ==
  /\ ExportStart(Browsers)
  /\ AudioInit
  /\ CanvasInit
  /\ SynthInit
  /\ FrameInit

Next ==
  \/ ExportNext \/ AudioNext \/ SeekNext \/ Unmount
  \/ AvatarNext \/ FaceNext \/ RenderNext \/ SynthNext \/ WorkerNext
  \/ MicroNext \/ SchedNext

Spec == Init /\ [][Next]_vars

\* The export panel alone; the audio pipeline stays as mounted.
ExportInit ==
  /\ ExportStart(Browsers)
  /\ audioOp = "none"
  /\ audioArg = NoArg
  /\ ap = AudioStart(TRUE, FALSE)
  /\ CanvasInit
  /\ SynthInit
  /\ FrameInit

SpecExport == ExportInit /\ [][ExportNext]_vars

\* The export panel with the clock of Date.now() running.
ClockNext == ExportNext \/ Tick

SpecClock == ExportInit /\ [][ClockNext]_vars

\* The audio pipeline alone; the export panel stays as mounted.
AudioOnlyInit ==
  /\ ExportStart({AllMimes})
  /\ AudioInit
  /\ CanvasInit
  /\ SynthInit
  /\ FrameInit

SpecAudio == AudioOnlyInit /\ [][AudioNext]_vars

\* A browser with Web Audio that refuses a second source node per element.
MountedInit ==
  /\ ExportStart({AllMimes})
  /\ audioOp = "none"
  /\ audioArg = NoArg
  /\ ap = AudioStart(TRUE, FALSE)
  /\ CanvasInit
  /\ SynthInit
  /\ FrameInit

SpecSeek == MountedInit /\ [][SeekNext]_vars

\* The audio pipeline up to and after the unmounting of the page.
UnmountNext == AudioNext \/ Unmount

SpecUnmount == MountedInit /\ [][UnmountNext]_vars

\* The avatar image of the canvas alone.
SpecAvatar == MountedInit /\ [][AvatarNext]_vars

\* The face inputs of the canvas alone.
SpecFace == MountedInit /\ [][FaceNext]_vars

\* The render loop of the canvas alone.
SpecRender == MountedInit /\ [][RenderNext]_vars

\* The render loop when display frames keep occurring and React keeps
\* rendering what changed.
SpecRenderFair ==
  MountedInit /\ [][RenderNext]_vars /\ WF_vars(RegularFrame) /\ WF_vars(Rerender)

\* The synthesizer and the encoder alone, each applied to an input.
SynthOnlyInit ==
  /\ ExportStart({AllMimes})
  /\ audioOp = "none"
  /\ audioArg = NoArg
  /\ ap = AudioStart(TRUE, FALSE)
  /\ CanvasInit
  /\ synth \in SynthInputs
  /\ workers = NoWorkers
  /\ FrameInit

SpecSynth == SynthOnlyInit /\ [][SynthNext]_vars

\* The encoding workers with the calls that wait for them.
SpecWorker == MountedInit /\ [][WorkerNext]_vars

\* The same when the worker runs, its messages are delivered and a resumed
\* call continues.
SpecWorkerFair ==
  /\ MountedInit
  /\ [][WorkerNext]_vars
  /\ \A k \in WorkerSlots :
       /\ WF_vars(\E ok \in BOOLEAN : WorkerConvert(k, ok))
       /\ WF_vars(\E fresh \in {"running", "suspended"} : WorkerOnMessage(k, fresh))
  /\ WF_vars(ContinueCall)

\* The idle micro-motion alone; the first frame may bear a timestamp from
\* before the effect read the clock.
MicroOnlyInit ==
  /\ ExportStart({AllMimes})
  /\ audioOp = "none"
  /\ audioArg = NoArg
  /\ ap = AudioStart(TRUE, FALSE)
  /\ CanvasInit
  /\ SynthInit
  /\ micro \in {MicroStart(0), MicroStart(2)}
  /\ sched = SchedStart

SpecMicro == MicroOnlyInit /\ [][MicroNext]_vars

\* The callbacks of the display's frames alone.
SpecSched == MountedInit /\ [][SchedNext]_vars

\* ------------------------------------------------------------------ claims

\* The recorder events still queued for recorder r.
Pending(r) == {i \in 1..Len(events) : events[i].rec = r}

\* C1: a startRecording call made while recorderRef holds a recorder reports
\* the already-recording error, creates no recorder, and leaves recorderRef,
\* the collected chunks and the queued recorder events as they were.
C1_SecondStartRejected ==
  [][(lastOp' = "startRecording" /\ recorderRef # NullRef)
       => /\ status' = "error"
          /\ message' = MsgAlreadyRecording
          /\ recorderRef' = recorderRef
          /\ recorders' = recorders
          /\ exportChunksRef' = exportChunksRef
          /\ events' = events]_vars

\* C1 witness: a second start was rejected while the first recorder records.
C1_Witness ==
  /\ lastOp = "startRecording"
  /\ message = MsgAlreadyRecording
  /\ recorderRef # NullRef
  /\ recorders[recorderRef].state = "recording"
  /\ Len(recorders) = 1

\* The status changes the export state machine of the specification allows.
AllowedChange(from, to, op) ==
  \/ <<from, to>> \in {<<"idle", "recording">>, <<"recording", "processing">>,
                       <<"processing", "complete">>, <<"idle", "error">>,
                       <<"recording", "error">>}
  \/ (from \in {"complete", "error"} /\ op = "startRecording")

\* C2: every change of the export status made by a handler (each setStatus
\* call changing the value) is idle->recording, recording->processing,
\* processing->complete, idle->error, recording->error, or a change out of
\* complete or error made by startRecording.
C2_OnlySpecTransitions ==
  [][LET chain == <<status>> \o statusWrites' IN
     \A i \in 1..(Len(chain) - 1) :
        chain[i] # chain[i + 1] => AllowedChange(chain[i], chain[i + 1], lastOp')]_vars

\* C3: once the status is complete, only a startRecording call changes it:
\* no other handler writes a status other than complete.
C3_CompleteLeftOnlyByStart ==
  [][(status = "complete" /\ \E i \in 1..Len(statusWrites') : statusWrites'[i] # "complete")
       => lastOp' = "startRecording"]_vars

\* C4: when the most recent recorder has faulted and all its events have been
\* handled, the export is in status error and no download is ready.
C4_FaultDiscardsPartial ==
  \A r \in faulted :
    (r = Len(recorders) /\ Pending(r) = {} /\ lastOp = "stop")
      => (status = "error" /\ ~downloadReady)

\* C5: a startRecording call that reaches the format check with a requested
\* encoding the recorder does not support reports the unsupported-format
\* error, creates no recorder, and leaves recorderRef, the chunks,
\* downloadReady and downloadSize as they were.
C5_UnsupportedRejectedCleanly ==
  [][(lastOp' = "startRecording" /\ canvasReady /\ recorderRef = NullRef
        /\ ~isTypeSupported(lastArg'))
       => /\ status' = "error"
          /\ message' = MsgUnsupported
          /\ recorders' = recorders
          /\ recorderRef' = recorderRef
          /\ exportChunksRef' = exportChunksRef
          /\ downloadReady' = downloadReady
          /\ downloadSize' = downloadSize]_vars

\* C6: stopRecording with no recorder in recorderRef sets the message and
\* changes nothing else: status, recorderRef, chunks, download handle,
\* downloadReady, downloadSize, recorders and queued events stay as they were.
C6_StopWithoutRecorderIsNoOp ==
  [][(lastOp' = "stopRecording" /\ recorderRef = NullRef)
       => /\ message' = MsgNoActive
          /\ UNCHANGED <<status, recorderRef, exportChunksRef, downloadUrlRef,
                         downloadReady, downloadSize, lastMimeRef, recorders,
                         events, objectUrls>>]_vars

\* C6 witness: stopRecording ran with no recorder after a finished export.
C6_Witness ==
  /\ lastOp = "stopRecording"
  /\ message = MsgNoActive
  /\ recorderRef = NullRef
  /\ status = "complete"
  /\ downloadReady

\* C7: at most one object URL created by the export panel is unrevoked, and it
\* is the one downloadUrlRef holds.
C7_AtMostOneLiveUrl ==
  /\ Cardinality(LiveUrls) <= 1
  /\ LiveUrls \subseteq {downloadUrlRef}

\* C7 witness: a second recording was finalized and the first handle revoked.
C7_Witness ==
  /\ Len(objectUrls) >= 2
  /\ objectUrls[1].revoked
  /\ LiveUrls = {downloadUrlRef}

\* C8 as stated: no download() reuses the filename of an earlier download().
C8_FilenamesAlwaysDiffer == ~clash

\* C8 amended: download() saves the file under the timestamp Date.now() and the
\* extension mp4 if the mime type of the blob behind the download handle
\* contains mp4, else webm; a download() reuses an earlier filename only if an
\* earlier download() ran at the same value of Date.now().
C8_FilenameFromMimeAndClock ==
  [][(lastOp' = "download" /\ downloadUrlRef # NullRef)
       => /\ saved' = saved \cup
               {[ts |-> now,
                 ext |-> IF objectUrls[downloadUrlRef].blob.type = MimeMp4
                           THEN "mp4" ELSE "webm"]}
          /\ clash' => now \in savedAt]_vars

\* C8 witness: two downloads at different clock values, under different names.
C8_Witness ==
  /\ lastOp = "download"
  /\ Cardinality(savedAt) >= 2
  /\ Cardinality(saved) >= 2
  /\ ~clash

\* ------------------------------------------------------------ release()

\* The pipeline as it is before any graph is built (lines 11-26): no nodes,
\* no sampling callback, no source, every exposed value at its start value.
PipelineEmpty(s) ==
  /\ s.sourceNodeRef = NullRef
  /\ ~s.analyserRef
  /\ ~s.gainNodeRef
  /\ ~s.destinationNodeRef
  /\ s.animationFrameRef = NoFrame
  /\ s.rafPending = {}
  /\ s.sourceMeta = NoMeta
  /\ s.audioLevel = 0
  /\ s.duration = 0
  /\ s.currentTime = 0
  /\ captureStream(s) = "null"

\* The pipeline once every media element event still queued has reached its
\* listener.
RECURSIVE Settle(_)
Settle(s) == IF s.mediaEvents = <<>> THEN s ELSE Settle(handleMediaEvent(s))

\* C9: right after release() the pipeline is in its initial empty state: no
\* source, analysis or gain node, no recordable sink, no sampling callback,
\* no sourceMeta, audioLevel, duration and currentTime at 0, and
\* captureStream() returns none.
C9_ReleaseEmptiesPipeline == audioOp = "release" => PipelineEmpty(ap)

\* C10: from every reachable state in which release() can be called, calling
\* it twice in succession raises no error and leaves the pipeline, once the
\* queued media events have been handled, exactly as calling it once does.
C10_ReleaseTwiceAsOnce ==
  ~Draining =>
    LET once == release(ap)
        twice == release(once)
    IN /\ once.error = ap.error
       /\ twice.error = ap.error
       /\ Settle(twice) = Settle(once)


\* ------------------------------------------------------------ seek()

\* C11: seek with a non-finite value changes nothing in the pipeline; with a
\* finite value the playback position is that value afterwards.
C11_SeekSetsPosition ==
  [][audioOp' = "seek" =>
       IF isFinite(audioArg')
         THEN MediaCurrentTime(ap') = audioArg'.v
         ELSE ap' = ap]_vars

\* C11, as the media element allows it: seek with a non-finite value changes
\* nothing in the pipeline; with a finite value the playback position is
\* afterwards the value brought into the range of the loaded medium, and the
\* value itself while no medium is loaded.
C11_SeekSetsPositionInRange ==
  [][audioOp' = "seek" =>
       IF isFinite(audioArg')
         THEN MediaCurrentTime(ap') =
                IF ap.elLoaded THEN ClampPos(audioArg'.v) ELSE audioArg'.v
         ELSE ap' = ap]_vars

\* seek(NaN) has been called on a loaded medium away from its start.
C11_Witness ==
  /\ audioOp = "seek"
  /\ audioArg.kind = "NaN"
  /\ ap.elLoaded
  /\ ap.elPos = MediaLength


\* ------------------------------------------------------------ generateSpeech()

\* C12: generateSpeech with empty or whitespace-only text reports the error
\* and leaves every other part of the pipeline (source, media locator,
\* graph, sampling callback, audioLevel) as it was before the call.
C12_EmptyTextOnlyReports ==
  [][audioOp' = "generateSpeech" /\ audioArg'.v = 0 =>
       /\ ap'.error = ErrEmptyText
       /\ [ap' EXCEPT !.error = ap.error, !.localError = ap.localError] = ap]_vars

\* generateSpeech(" ") has been called with a source connected and sampled.
C12_Witness ==
  /\ audioOp = "generateSpeech"
  /\ audioArg.v = 0
  /\ ap.error = ErrEmptyText
  /\ ap.sourceNodeRef # NullRef
  /\ ap.sourceNodeRef \in ap.connected
  /\ ap.animationFrameRef \in ap.rafPending

\* What a source-loading operation works on: the source node and its
\* connection, the sampling callback, sourceMeta and the media locator.
SourceState(s) ==
  <<s.sourceNodeRef, s.connected, s.animationFrameRef, s.rafPending,
    s.sourceMeta, s.elSrc>>

\* C13: when the worker of a generateSpeech call reports an encoding failure,
\* the failure is reported and the source is as before the call: still
\* connected, the sampling callback still registered, sourceMeta and the
\* media locator unchanged.
C13_EncodingFailureKeepsSource ==
  CanCall /\ CanLoad /\ ap.audioApi =>
    LET failed == workerFailed(generateSpeechBegin(ap, "hi"))
    IN /\ failed.localError = ErrEncode
       /\ SourceState(failed) = SourceState(ap)

\* C14: a source-loading operation called while the audio API is unavailable
\* reports the error and leaves sourceMeta and the media locator unchanged.
C14_NoApiLoadAborts ==
  [][audioOp' \in {"loadAudioFile", "loadVideoFile"} /\ GraphUnavailable(ap) =>
       /\ ap'.error = ErrNoWebAudio
       /\ ap'.sourceMeta = ap.sourceMeta
       /\ ap'.elSrc = ap.elSrc]_vars

\* ------------------------------------------------------------ teardown

\* C16: after stop(), release() or the unmounting of the page no sampling
\* callback is registered, no encoding worker is outstanding and the sample
\* buffer is gone.
C16_TeardownCancelsAll ==
  audioOp \in {"stop", "release", "unmount"} =>
    /\ ap.rafPending = {}
    /\ ap.nWorkers = 0
    /\ ~ap.dataBufferRef

\* ------------------------------------------------------------ the graph

\* C17: under every interleaving of source-loading and togglePlay calls at
\* most one source node is connected to the gain node.
C17_OneSourceConnected == Cardinality(ap.connected) <= 1

\* A second source node has been connected after the first was disconnected.
C17_Witness ==
  /\ ap.sourceNodeRef = 2
  /\ ap.connected = {2}

\* C18: captureStream() returns none as long as no analysis graph has been
\* built and the sink's stream once one has been.
C18_StreamIffGraphBuilt ==
  captureStream(ap) = IF ap.analyserRef THEN "stream" ELSE "null"

\* A graph has been built, its source released, and the stream is still
\* handed out.
C18_Witness ==
  /\ audioOp = "release"
  /\ ap.analyserRef
  /\ ap.sourceNodeRef = NullRef
  /\ captureStream(ap) = "stream"

\* C19: audioLevel, in hundredths, is between 0 and 100 in every reachable
\* state.
C19_LevelInRange == ap.audioLevel \in 0..100

\* A sample above the range has been clamped to 1.
C19_Witness ==
  /\ audioOp = "analyseLevel"
  /\ ap.audioLevel = 100


\* ------------------------------------------------------------ avatar canvas

\* C15: under every interleaving of source changes and load completions, a
\* cached avatar image is the image of the avatar source now requested.
C15_CachedImageIsCurrent ==
  av.imageRef # NoAvatar => av.imageRef = av.avatarSource

\* C20: mouthOpen is between 0 and 1 for every audioLevel in [0,1] and all
\* emotion weights in [0,100].
C20_MouthOpenInRange == face.mouthOpen \in 0..MouthScale

\* The boundary the specification names has been drawn: audioLevel 1,
\* surprised 100, happy 0, sad 100.
C20_Witness ==
  /\ face.audioLevel = 100
  /\ face.emotions = [happy |-> 0, sad |-> 100, surprised |-> 100]
  /\ face.mouthOpen = 17200


\* ------------------------------------------------------------ render loop

\* C21: blink openness is between 0 and 1 in every reachable state, and one
\* step of the blink state machine keeps it there from every blink state
\* with openness between 0 and 1.
C21_OpennessInRange ==
  /\ loop.openness \in 0..100
  /\ \A closing \in BOOLEAN, target \in {0, 100}, openness \in 0..100 :
       blinkStep([loop EXCEPT !.closing = closing, !.target = target,
                              !.openness = openness]).openness \in 0..100

\* A closing blink has been clamped to 0 on its 7th step.
C21_Witness ==
  /\ loop.phase = 7
  /\ loop.openness = 0
  /\ ~loop.closing

\* C22: the camera a frame is drawn with is the preset of its camera angle:
\* closeUp (0, 0.45, 1.18), threeQuarterLeft (-30, 0.52, 1.02),
\* threeQuarterRight (30, 0.52, 1.02), wide (0, 0.58, 0.92), front and every
\* other value (0, 0.52, 1.0).
C22_CameraPresetTable ==
  ~loop.dirty =>
    /\ loop.cameraAngle = "closeUp" => loop.camera = [x |-> 0, y |-> 45, scale |-> 118]
    /\ loop.cameraAngle = "threeQuarterLeft" =>
         loop.camera = [x |-> 0 - 30, y |-> 52, scale |-> 102]
    /\ loop.cameraAngle = "threeQuarterRight" =>
         loop.camera = [x |-> 30, y |-> 52, scale |-> 102]
    /\ loop.cameraAngle = "wide" => loop.camera = [x |-> 0, y |-> 58, scale |-> 92]
    /\ loop.cameraAngle \in {"front", "profile"} =>
         loop.camera = [x |-> 0, y |-> 52, scale |-> 100]

\* A frame has been drawn with the closeUp preset.
C22_Witness ==
  /\ ~loop.dirty
  /\ loop.cameraAngle = "closeUp"
  /\ loop.camera.scale = 118
  /\ loop.camera.y = 45

\* C26: when display frames keep occurring, a blink closing event eventually
\* fires, whatever prop updates occur in between.
C26_BlinkEventuallyFires == <>loop.closing

\* C27: the render loop is started once and render runs once per display
\* frame: the effect never runs again, and no second render step falls into
\* one frame.
C27_LoopRunsOncePerFrame ==
  /\ ~loop.restarted
  /\ loop.stepsInFrame <= 1

\* C28: a blink triggered with the eye open loses 0.15 of openness per render
\* step and is at 0 on the 7th, where closing ends and target is 1; it then
\* gains 0.12 per step and is at 1 on the 9th, where it stays.
C28_BlinkCourse ==
  /\ loop.phase \in 1..6 =>
       loop.closing /\ loop.openness = 100 - 15 * loop.phase
  /\ loop.phase = 7 =>
       ~loop.closing /\ loop.openness = 0 /\ loop.target = 100
  /\ loop.phase \in 8..15 =>
       ~loop.closing /\ loop.openness = 12 * (loop.phase - 7)
  /\ loop.phase >= 16 =>
       ~loop.closing /\ loop.openness = 100

\* A blink has run its whole course: 7 steps down, 9 steps up.
C28_Witness ==
  /\ loop.phase = 16
  /\ loop.openness = 100

\* C23: for N samples at rate R the encoded container has exactly 44 + 2N
\* bytes, and its header says RIFF size 36 + 2N, format PCM (1), 1 channel,
\* sample rate R, byte rate 2R, block align 2, 16 bits per sample and data
\* size 2N; for the text "Hi" N is the sample count of 0.98 s at 48 kHz.
C23_WavContainerLayout ==
  LET Layout(h, N, R) ==
        /\ h.byteLength = 44 + 2 * N
        /\ h.chunkSize = 36 + 2 * N
        /\ h.format = 1
        /\ h.channels = 1
        /\ h.sampleRate = R
        /\ h.byteRate = 2 * R
        /\ h.blockAlign = 2
        /\ h.bitsPerSample = 16
        /\ h.dataSize = 2 * N
  IN /\ synth.call = "encodeWav" =>
          /\ Layout(synth.wav.header, Len(synth.samples), synth.rate)
          /\ Len(synth.wav.pcm) = Len(synth.samples)
     /\ synth.call = "synthesizeSpeech" =>
          /\ Layout(synth.speech.blob, synth.speech.samples.length, 48000)
          /\ synth.text = <<"H", "i">> =>
               synth.speech.samples.length = (48000 * 98) \div 100

\* "Hi" has been synthesized and encoded.
C23_Witness ==
  /\ synth.call = "synthesizeSpeech"
  /\ synth.text = <<"H", "i">>
  /\ synth.speech.blob.byteLength = 44 + 2 * 47040

\* C24: encoding N samples in [-1, 1] at rate R and parsing the container
\* back, each 16-bit value divided by 32768, yields N samples at rate R,
\* each at most 1/32768 away from the original.
C24_RoundTripWithinOneStep ==
  (/\ synth.call = "encodeWav"
   /\ \A i \in 1..Len(synth.samples) :
        synth.samples[i] \in (0 - SampleScale)..SampleScale)
  => LET N == synth.wav.header.dataSize \div 2
         back == [i \in 1..N |-> synth.wav.pcm[i]]
         step == SampleScale \div 32768
         diff(i) == synth.samples[i] - back[i] * step
     IN /\ N = Len(synth.samples)
        /\ synth.wav.header.sampleRate = synth.rate
        /\ \A i \in 1..N : diff(i) <= step /\ 0 - diff(i) <= step

\* C29 as stated: for every text the duration is the sum of what its
\* phonemes last, 0.08 s a space and 0.06 s a letter, plus 0.08 s a word.
C29_DurationIsSumOfPhonemes ==
  synth.call = "synthesizeSpeech" =>
    synth.speech.duration
      = sumOfPhonemes(phonemes(synth.text)) + 80 * words(synth.text)

\* C29: for every text the duration is the larger of 0.055 s a phoneme and
\* 0.9 s, plus 0.08 s a word.
C29_DurationFromCountWithFloor ==
  synth.call = "synthesizeSpeech" =>
    LET count == Len(phonemes(synth.text))
        floor == IF 55 * count > 900 THEN 55 * count ELSE 900
    IN synth.speech.duration = floor + 80 * words(synth.text)

\* A text of two words with a character that is no phoneme.
C29_Witness ==
  /\ synth.call = "synthesizeSpeech"
  /\ synth.text = <<"h", " ", "1">>
  /\ synth.speech.duration = 1060

\* C30: two texts that differ only in the case of their letters give the
\* same phoneme frequencies, 160 + (code * 13) mod 120 of the lower-case
\* code, and the same sample buffer.
C30_CaseDoesNotMatter ==
  synth.call = "synthesizeSpeech" =>
    /\ \A other \in SpeechTexts :
         (trim(other) = other /\ toLowerCase(other) = toLowerCase(synth.text))
           => synthesizeSpeech(other).samples = synth.speech.samples
    /\ LET lower == phonemes(toLowerCase(synth.text))
       IN \A i \in 1..Len(lower) :
            synth.speech.samples.bursts[i].freq
              = 160 + ((charCodeAt(lower[i]) * 13) % 120)

\* C25: every request handed to a worker is answered by exactly one message,
\* a result or an error; the promise of the caller then settles exactly once,
\* resolved or rejected; the worker is terminated; and a rejection becomes
\* the error message the page shows.
C25_WorkerAnswersOnce ==
  /\ [](\A k \in WorkerSlots :
          LET w == workers[k]
          IN /\ w.phase \in {"free", "convert", "result", "error", "resolved", "rejected"}
             /\ w.phase \in {"free", "convert"} =>
                  w.posted = 0 /\ w.settled = 0 /\ ~w.terminated
             /\ w.phase \in {"result", "error"} =>
                  w.posted = 1 /\ w.settled = 0 /\ ~w.terminated
             /\ w.phase \in {"resolved", "rejected"} =>
                  w.posted = 1 /\ w.settled = 1 /\ w.terminated)
  /\ [][\A k \in WorkerSlots :
          (workers[k].phase = "error" /\ workers'[k].phase = "rejected")
            => ap'.localError = ErrEncode]_vars
  /\ \A k \in WorkerSlots :
       (workers[k].phase = "convert") ~> (workers[k].phase \in {"resolved", "rejected"})

\* One worker's promise was rejected and reported while another's resolved.
C25_Witness ==
  /\ workers[1].phase = "rejected"
  /\ workers[2].phase = "resolved"
  /\ audioOp = "workerError"
  /\ ap.localError = ErrEncode

\* C33: the downloadable object built when a recorder stops holds exactly
\* the chunks that recorder emitted, in the order it emitted them, also when
\* startRecording ran between stopRecording and the stopped recorder's last
\* events.
C33_ObjectHoldsOwnChunks ==
  [][(/\ events # <<>>
      /\ Head(events).type = "stop"
      /\ lastOp' = "stop")
     => \A i \in DOMAIN objectUrls'[downloadUrlRef'].blob.chunks :
          objectUrls'[downloadUrlRef'].blob.chunks[i].rec = Head(events).rec]_vars

\* C34: in every state of the export panel the status is "recording" exactly
\* when recorderRef holds a recorder that is recording.
C34_RecordingIffActiveRecorder ==
  (status = "recording")
    <=> (recorderRef # NullRef /\ recorders[recorderRef].state = "recording")

\* C36: at most one amplitude-sampling frame callback is registered at any
\* time, whatever the order of loads, togglePlay, release and runs of the
\* callback; animationFrameRef is non-zero exactly when one is registered.
C36_OneSamplingCallback ==
  /\ Cardinality(ap.rafPending) <= 1
  /\ (ap.animationFrameRef # NoFrame) <=> (ap.rafPending # {})
  /\ ap.animationFrameRef # NoFrame => ap.rafPending = {ap.animationFrameRef}

\* The callback has run and registered itself again after a second load.
C36_Witness ==
  /\ audioOp = "analyseLevel"
  /\ ap.nUrls = 2
  /\ ap.rafPending = {ap.animationFrameRef}

\* C31: in a display frame that samples the amplitude, the sampling callback
\* has run before render reads the amplitude, and render draws with the
\* amplitude sampled in that frame, never an older one.
C31_RenderDrawsSampledLevel ==
  sched.drawn.sampling => sched.drawn.level = sched.drawn.sampled

\* C32: the micro-motion accumulator never decreases; on a frame whose
\* timestamp is more than 32 ms after the last update it grows by
\* delta * 0.005 and the last update becomes that timestamp; on every other
\* frame both stay as they are.
C32_MicroMotionSteps ==
  [][LET delta == micro'.now - micro.lastUpdate
     IN /\ micro'.microMotion >= micro.microMotion
        /\ IF micro'.now # micro.now /\ delta > 32
             THEN /\ micro'.microMotion = micro.microMotion + delta * 5
                  /\ micro'.lastUpdate = micro'.now
             ELSE /\ micro'.microMotion = micro.microMotion
                  /\ micro'.lastUpdate = micro.lastUpdate]_vars

\* The accumulator has grown twice, and the last frame left it alone.
C32_Witness ==
  /\ micro.microMotion = (33 + 50) * 5
  /\ micro.lastUpdate = 83
  /\ micro.now = micro.lastUpdate + 16

\* C37: at most one render callback of the canvas is registered at any
\* time, it is the one the running effect holds, none is registered once
\* the canvas has unmounted, and render never ran on an unmounted canvas.
C37_OneRenderCallback ==
  LET registered ==
        {c \in {sched.queue[i] : i \in DOMAIN sched.queue}
                 \cup {sched.running[i] : i \in DOMAIN sched.running} :
           c.fn = "render"}
  IN /\ Cardinality(registered) <= 1
     /\ \A c \in registered : c.id = sched.animationFrame
     /\ ~sched.mounted => registered = {}
     /\ sched.drawn.mounted

\* The canvas unmounted after a prop change had restarted its effect, with
\* the sampling callback still registered.
C37_Witness ==
  /\ ~sched.mounted
  /\ sched.propLevel # 0
  /\ sched.animationFrameRef # NoFrame
  /\ sched.queue # <<>>

\* C35: when load operations overlap, then once all of them have completed
\* the source of the media element and sourceMeta are those of the load asked
\* for last, and sourceMeta.url is the source of the element.  Stated for a
\* file load that was asked for and completed while generateSpeech awaited
\* its worker: when the worker's result then completes the last load under
\* way, the source is still the file's.
C35_LastRequestedLoadWins ==
  [][(/\ audioOp \in {"loadAudioFile", "loadVideoFile"}
      /\ ap.waiting = <<>>
      /\ ap.sourceMeta # NoMeta
      /\ audioOp' = "workerResult"
      /\ ap'.nWorkers = 0
      /\ ap'.waiting = <<>>)
     => /\ ap'.sourceMeta.type = ap.sourceMeta.type
        /\ ap'.sourceMeta.url = ap.sourceMeta.url
        /\ ap'.elSrc = ap'.sourceMeta.url]_vars

\* C38: for every text every burst is written in full: the buffer is at
\* least as long as the end of the last burst, so the guard on the write
\* position never cuts a burst.
C38_BurstsWrittenInFull ==
  synth.call = "synthesizeSpeech" =>
    LET b == synth.speech.samples.bursts
    IN /\ \A i \in DOMAIN b : b[i].written = b[i].length
       /\ b # <<>> =>
            synth.speech.samples.length >= b[Len(b)].position + b[Len(b)].length

================================================================
